---- MODULE Spec2Model ----
(***************************************************************************)
(* Model of src/script.js: the animation of a charged particle in a        *)
(* uniform magnetic field (simulation time, parameters, particle position, *)
(* trail buffer and follow camera) driven by animation frames and UI       *)
(* events.                                                                 *)
(*                                                                         *)
(* Numbers.  A JavaScript number is modelled as a record: a finite value   *)
(* on the integer grid, NaN, or +/-Infinity, with the IEEE-754 rules for   *)
(* the special values (x/0, 0/0, Infinity*0, sin(Infinity), NaN            *)
(* propagation, NaN === NaN being false).  Finite arithmetic is exact;     *)
(* rounding and the sign of zero are not modelled (-0 === 0 in the code,   *)
(* and Math.abs removes the sign before omega is used as a divisor).       *)
(* Angles are counted in quarter turns, so that Math.sin and Math.cos take *)
(* the values 0, 1, -1 on every angle of the grid.                         *)
(***************************************************************************)
EXTENDS Integers, Sequences, FiniteSets, TLC

VARIABLES
  t,               \* let t (script.js:53): simulation time
  params,          \* let params (script.js:39-51)
  particle,        \* particle.position (script.js:20-24)
  trailPositions,  \* const trailPositions (script.js:28)
  camera,          \* camera.position (script.js:6, 15)
  cameraLookAt,    \* the point the camera is oriented at (camera.lookAt)
  controlsTarget,  \* controls.target (script.js:12, 16)
  appended,        \* history: every position pushed since the trail was last emptied
  lastEvent        \* history: the handler that ran last

vars == <<t, params, particle, trailPositions, camera, cameraLookAt,
          controlsTarget, appended, lastEvent>>

-----------------------------------------------------------------------------
(* Bounds of the model *)

\* The trail capacity.  script.js:27 sets 1000; the model explores every
\* interleaving of events with a scaled-down capacity.
maxTrailPoints == 3

\* Frames explored beyond a full trail before the trail is emptied again.
ExtraTicks == 2

MaxTicks == maxTrailPoints + ExtraTicks

\* Frames explored between two clears of the trail when every control
\* emits its full set of values.
ShortTicks == 2

\* clock.getDelta(): elapsed frame time, never negative.
DeltaValues == {0, 1}

-----------------------------------------------------------------------------
(* JavaScript numbers *)

Fin(n) == [kind |-> "fin", val |-> n]
NaN == [kind |-> "nan", val |-> 0]
Inf(s) == [kind |-> "inf", val |-> s]

Zero == Fin(0)
One == Fin(1)

IsFinite(a) == a.kind = "fin"

Sign(n) == IF n > 0 THEN 1 ELSE IF n < 0 THEN -1 ELSE 0

AbsInt(n) == IF n < 0 THEN -n ELSE n

\* a === b
StrictEq(a, b) == a.kind # "nan" /\ b.kind # "nan" /\ a = b

\* a < b
Less(a, b) ==
  /\ a.kind # "nan" /\ b.kind # "nan"
  /\ a # b
  /\ CASE a.kind = "fin" /\ b.kind = "fin" -> a.val < b.val
       [] a.kind = "inf" -> a.val < 0
       [] OTHER -> b.val > 0

\* -a
Neg(a) == IF a.kind = "nan" THEN NaN ELSE [kind |-> a.kind, val |-> -a.val]

\* Math.abs(a)
Abs(a) == IF a.kind = "nan" THEN NaN ELSE [kind |-> a.kind, val |-> AbsInt(a.val)]

\* a + b
Add(a, b) ==
  CASE a.kind = "nan" \/ b.kind = "nan" -> NaN
    [] a.kind = "inf" /\ b.kind = "inf" -> IF a.val = b.val THEN a ELSE NaN
    [] a.kind = "inf" -> a
    [] b.kind = "inf" -> b
    [] OTHER -> Fin(a.val + b.val)

\* a - b
Sub(a, b) == Add(a, Neg(b))

\* a * b
Mul(a, b) ==
  CASE a.kind = "nan" \/ b.kind = "nan" -> NaN
    [] a.kind = "inf" \/ b.kind = "inf" ->
         IF Sign(a.val) * Sign(b.val) = 0 THEN NaN
         ELSE Inf(Sign(a.val) * Sign(b.val))
    [] OTHER -> Fin(a.val * b.val)

\* a / b.  The quotient of two finite values is exact on every input the
\* model reaches (the finite divisors are 0 and 1); x/0 is +/-Infinity by
\* the sign of x, 0/0 is NaN.
Div(a, b) ==
  CASE a.kind = "nan" \/ b.kind = "nan" -> NaN
    [] a.kind = "inf" /\ b.kind = "inf" -> NaN
    [] a.kind = "inf" -> Inf(IF b.val < 0 THEN -a.val ELSE a.val)
    [] b.kind = "inf" -> Zero
    [] b.val = 0 -> IF a.val = 0 THEN NaN ELSE Inf(Sign(a.val))
    [] OTHER -> Fin(Sign(a.val) * Sign(b.val) * (AbsInt(a.val) \div AbsInt(b.val)))

\* Math.sin(a), a in quarter turns
Sin(a) ==
  IF a.kind # "fin" THEN NaN
  ELSE Fin(CASE a.val % 4 = 1 -> 1 [] a.val % 4 = 3 -> -1 [] OTHER -> 0)

\* Math.cos(a), a in quarter turns
Cos(a) ==
  IF a.kind # "fin" THEN NaN
  ELSE Fin(CASE a.val % 4 = 0 -> 1 [] a.val % 4 = 2 -> -1 [] OTHER -> 0)

-----------------------------------------------------------------------------
(* THREE.Vector3 *)

Vector3(x, y, z) == [x |-> x, y |-> y, z |-> z]

VecAdd(u, v) == Vector3(Add(u.x, v.x), Add(u.y, v.y), Add(u.z, v.z))

VecFinite(v) == IsFinite(v.x) /\ IsFinite(v.y) /\ IsFinite(v.z)

\* 10 * Math.tan(THREE.Math.degToRad(20)) = 3.6397..., on the integer grid
TenTanTwentyDegrees == 4

\* Mutant: the offset copied from the initial camera position (z = 10)
fixedCameraOffsetInitial == Vector3(Fin(-10), Fin(TenTanTwentyDegrees), Fin(10))

fixedCameraOffset == Vector3(Fin(-10), Fin(TenTanTwentyDegrees), Zero)

-----------------------------------------------------------------------------
(* The UI controls *)

\* Mutant: the speed slider bound with resetOnChange = true
resetOnChangeSpeedResets ==
  [mass |-> TRUE, charge |-> TRUE, B |-> TRUE, v_perp |-> TRUE,
   v_parallel |-> TRUE, speed |-> TRUE]

\* Mutant: the v_parallel slider bound without resetOnChange
resetOnChangeParallelKeeps ==
  [mass |-> TRUE, charge |-> TRUE, B |-> TRUE, v_perp |-> TRUE,
   v_parallel |-> FALSE, speed |-> FALSE]

\* The bindSlider calls: parameter -> resetOnChange
resetOnChange ==
  [mass |-> TRUE, charge |-> TRUE, B |-> TRUE, v_perp |-> TRUE,
   v_parallel |-> TRUE, speed |-> FALSE]

\* The values each numeric control can emit: arbitrary floats, accepted
\* without validation (the page that declares the controls' ranges is not
\* part of the sources).
SliderValues ==
  [mass |-> {0, 1}, charge |-> {-1, 0, 1}, B |-> {0, 1}, v_perp |-> {0, 1, 2},
   v_parallel |-> {0, 1}, speed |-> {-1, 0, 1}]

\* A narrower choice of the same controls' values, explored together with
\* the camera and with long runs of frames.
NarrowSliderValues ==
  [mass |-> {1}, charge |-> {1}, B |-> {1}, v_perp |-> {1},
   v_parallel |-> {0, 1}, speed |-> {0, 1}]

\* Camera positions the user reaches by dragging (OrbitControls)
OrbitSpots == {Vector3(Zero, Zero, Fin(10))}

-----------------------------------------------------------------------------
(* The trajectory *)

\* const omega = Math.abs(params.charge * params.B / params.mass)
omegaOf(p) == Abs(Div(Mul(p.charge, p.B), p.mass))

\* The position updateParticle sets at time tt under parameters p
Trajectory(tt, p) ==
  LET omega == omegaOf(p) IN
  IF StrictEq(omega, Zero) \/ StrictEq(p.v_perp, Zero)
  THEN Vector3(Mul(p.v_perp, tt), Zero, Mul(p.v_parallel, tt))
  ELSE LET r == Div(p.v_perp, omega) IN
       Vector3(Mul(r, Sin(Mul(omega, tt))),
               Mul(Neg(r), Sub(One, Cos(Mul(omega, tt)))),
               Mul(p.v_parallel, tt))

\* Mutant: the eviction test off by one
PushLateEvict(trail, p) ==
  LET pushed == Append(trail, p) IN
  IF Len(pushed) > maxTrailPoints + 1 THEN Tail(pushed) ELSE pushed

\* Mutant: pop() instead of shift(), evicting the newest point
PushPop(trail, p) ==
  LET pushed == Append(trail, p) IN
  IF Len(pushed) > maxTrailPoints
  THEN SubSeq(pushed, 1, Len(pushed) - 1)
  ELSE pushed

\* trailPositions.push(p); if (length > maxTrailPoints) shift()
Push(trail, p) ==
  LET pushed == Append(trail, p) IN
  IF Len(pushed) > maxTrailPoints THEN Tail(pushed) ELSE pushed

-----------------------------------------------------------------------------
(* The state after the script has loaded: the declarations have run and    *)
(* animate() has been called once (script.js:99), with the clock's first   *)
(* getDelta() returning 0 and follow mode off.                             *)

initialParams ==
  [mass |-> One, charge |-> One, B |-> One, v_perp |-> One,
   v_parallel |-> One, speed |-> One, followCamera |-> FALSE]

Init ==
  /\ t = Zero
  /\ params = initialParams
  /\ particle = Trajectory(Zero, initialParams)
  /\ trailPositions = <<Trajectory(Zero, initialParams)>>
  /\ camera = Vector3(Fin(-10), Fin(TenTanTwentyDegrees), Fin(10))
  /\ cameraLookAt = Vector3(Zero, Zero, Zero)
  /\ controlsTarget = Vector3(Zero, Zero, Zero)
  /\ appended = <<Trajectory(Zero, initialParams)>>
  /\ lastEvent = "load"

-----------------------------------------------------------------------------
(* The handlers *)

\* Mutant: the time scale left out of the time step
animateUnscaled(delta) ==
  LET t1 == Add(t, Fin(delta))
      pos == Trajectory(t1, params)
  IN /\ t' = t1
     /\ particle' = pos
     /\ trailPositions' = Push(trailPositions, pos)
     /\ appended' = Append(appended, pos)
     /\ IF params.followCamera
        THEN /\ camera' = VecAdd(pos, fixedCameraOffset)
             /\ cameraLookAt' = pos
             /\ controlsTarget' = pos
        ELSE UNCHANGED <<camera, cameraLookAt, controlsTarget>>
     /\ lastEvent' = "tick"
     /\ UNCHANGED params

\* Mutant: updateParticle() called before the time step
animateStale(delta) ==
  LET t1 == Add(t, Mul(params.speed, Fin(delta)))
      pos == Trajectory(t, params)
  IN /\ t' = t1
     /\ particle' = pos
     /\ trailPositions' = Push(trailPositions, pos)
     /\ appended' = Append(appended, pos)
     /\ IF params.followCamera
        THEN /\ camera' = VecAdd(pos, fixedCameraOffset)
             /\ cameraLookAt' = pos
             /\ controlsTarget' = pos
        ELSE UNCHANGED <<camera, cameraLookAt, controlsTarget>>
     /\ lastEvent' = "tick"
     /\ UNCHANGED params

\* animate(), one frame with clock.getDelta() = delta.  controls.update()
\* finds no pending user input and leaves the camera where line 89 put it.
animate(delta) ==
  LET t1 == Add(t, Mul(params.speed, Fin(delta)))
      pos == Trajectory(t1, params)
  IN /\ t' = t1
     /\ particle' = pos
     /\ trailPositions' = Push(trailPositions, pos)
     /\ appended' = Append(appended, pos)
     /\ IF params.followCamera
        THEN /\ camera' = VecAdd(pos, fixedCameraOffset)
             /\ cameraLookAt' = pos
             /\ controlsTarget' = pos
        ELSE UNCHANGED <<camera, cameraLookAt, controlsTarget>>
     /\ lastEvent' = "tick"
     /\ UNCHANGED params

\* a frame, while fewer than cap positions were pushed since the last clear
TickWithin(cap, deltas) ==
  \E delta \in deltas :
    /\ Len(appended) < cap
    /\ animate(delta)

\* the 'input' listener bindSlider attaches
sliderInput(paramName, value) ==
  /\ params' = [params EXCEPT ![paramName] = Fin(value)]
  /\ IF resetOnChange[paramName]
     THEN /\ t' = Zero
          /\ trailPositions' = <<>>
          /\ appended' = <<>>
     ELSE UNCHANGED <<t, trailPositions, appended>>
  /\ lastEvent' = paramName
  /\ UNCHANGED <<particle, camera, cameraLookAt, controlsTarget>>

SliderIn(values) ==
  \E paramName \in DOMAIN values :
    \E value \in values[paramName] : sliderInput(paramName, value)

\* the 'change' listener of the follow checkbox
followChange(checked) ==
  /\ params' = [params EXCEPT !.followCamera = checked]
  /\ lastEvent' = "follow"
  /\ UNCHANGED <<t, particle, trailPositions, camera, cameraLookAt,
                 controlsTarget, appended>>

FollowChange == \E checked \in BOOLEAN : followChange(checked)

\* Mutant: reset() that zeroes the time and keeps the trail
ResetClickKeepsTrail ==
  /\ t' = Zero
  /\ lastEvent' = "reset"
  /\ UNCHANGED <<params, particle, trailPositions, appended, camera,
                 cameraLookAt, controlsTarget>>

\* params.reset(), called by the 'click' listener of the reset button
ResetClick ==
  /\ t' = Zero
  /\ trailPositions' = <<>>
  /\ appended' = <<>>
  /\ lastEvent' = "reset"
  /\ UNCHANGED <<params, particle, camera, cameraLookAt, controlsTarget>>

\* the user drags the camera with the orbit controls
OrbitDrag ==
  \E spot \in OrbitSpots :
    /\ camera' = spot
    /\ cameraLookAt' = controlsTarget
    /\ lastEvent' = "orbit"
    /\ UNCHANGED <<t, params, particle, trailPositions, controlsTarget, appended>>

-----------------------------------------------------------------------------
(* Specifications *)

\* Every handler, long runs of frames, the narrow slider values.
Tick == TickWithin(MaxTicks, DeltaValues)

SliderInput == SliderIn(NarrowSliderValues)

Next == Tick \/ SliderInput \/ FollowChange \/ ResetClick \/ OrbitDrag

Spec == Init /\ [][Next]_vars

\* Frames, every slider value and the reset button; the camera is left alone.
TickShort == TickWithin(ShortTicks, DeltaValues)

SliderInputAny == SliderIn(SliderValues)

NextParams == TickShort \/ SliderInputAny \/ ResetClick

SpecParams == Init /\ [][NextParams]_vars

-----------------------------------------------------------------------------
(* Properties *)

Min(a, b) == IF a < b THEN a ELSE b

Origin == Vector3(Zero, Zero, Zero)

\* The linear-drift position (v_perp * t, 0, v_parallel * t)
Drift(tt, p) == Vector3(Mul(p.v_perp, tt), Zero, Mul(p.v_parallel, tt))

\* The parameters a change event of the control named by ev leaves alone
OthersKept(ev) ==
  \A f \in (DOMAIN params) \ {ev} : params'[f] = params[f]

PhysicsSliders == {"mass", "charge", "B", "v_perp", "v_parallel"}

\* The simulation times of the grid
TimeGrid == {Fin(n) : n \in (0 - MaxTicks)..MaxTicks}

\* C1: in every reachable state the trail buffer holds at most
\* maxTrailPoints points: the single eviction of each append restores the
\* bound.
C1_TrailBounded == Len(trailPositions) <= maxTrailPoints

\* C1 witness: a frame has just appended to a full trail and evicted once.
C1_Witness ==
  /\ lastEvent = "tick"
  /\ Len(appended) > maxTrailPoints
  /\ Len(trailPositions) = maxTrailPoints

\* C2: after n frames since the trail was last empty, the trail holds exactly
\* the last min(n, maxTrailPoints) positions appended, in insertion order.
C2_TrailFifo ==
  LET n == Len(appended)
      k == Min(n, maxTrailPoints)
  IN trailPositions = SubSeq(appended, n - k + 1, n)

\* C2 witness: more positions were appended than the trail holds, the oldest
\* is gone and the points kept differ from one another.
C2_Witness ==
  /\ Len(appended) = MaxTicks
  /\ Len(trailPositions) = maxTrailPoints
  /\ appended[1] # trailPositions[1]
  /\ \A i, j \in 1..Len(trailPositions) :
       i # j => trailPositions[i] # trailPositions[j]

\* C3: immediately after the reset handler, simulation time is 0, the trail
\* is empty and no simulation parameter has changed.
C3_ResetEffect ==
  [][lastEvent' = "reset" =>
       /\ t' = Zero
       /\ trailPositions' = <<>>
       /\ params' = params]_vars

\* C3 witness: a reset has run after frames moved the particle, with
\* parameters that are not the initial ones.
C3_Witness ==
  /\ lastEvent = "reset"
  /\ t = Zero
  /\ trailPositions = <<>>
  /\ particle # Origin
  /\ params.followCamera
  /\ params.speed = Zero

\* C4: a change of mass, charge, B, v_perp or v_parallel sets the time to 0
\* and empties the trail; a change of speed or of the follow toggle leaves
\* the time and the trail as they were; each changes its own parameter only.
C4_ResetOnChange ==
  [][/\ lastEvent' \in PhysicsSliders =>
          /\ t' = Zero
          /\ trailPositions' = <<>>
          /\ OthersKept(lastEvent')
     /\ lastEvent' = "speed" =>
          /\ t' = t
          /\ trailPositions' = trailPositions
          /\ OthersKept("speed")
     /\ lastEvent' = "follow" =>
          /\ t' = t
          /\ trailPositions' = trailPositions
          /\ OthersKept("followCamera")]_vars

\* C4 witness: the speed has just been changed while the time is not 0 and
\* the trail is not empty.
C4_Witness ==
  /\ lastEvent = "speed"
  /\ params.speed = Zero
  /\ t # Zero
  /\ Len(trailPositions) > 1

\* C5 as stated: every frame sets t to t + speed * delta and t never
\* decreases in a frame, whatever value the speed control has set.
C5_TimeNeverDecreases ==
  [][lastEvent' = "tick" =>
       /\ \E delta \in DeltaValues : t' = Add(t, Mul(params.speed, Fin(delta)))
       /\ ~Less(t', t)]_vars

\* C5 amended: every frame sets t to t + speed * delta; t does not decrease
\* in a frame whose speed is not negative, and does not increase in a frame
\* whose speed is negative.
C5_TimeStep ==
  [][lastEvent' = "tick" =>
       /\ \E delta \in DeltaValues : t' = Add(t, Mul(params.speed, Fin(delta)))
       /\ ~Less(params.speed, Zero) => ~Less(t', t)
       /\ Less(params.speed, Zero) => ~Less(t, t')]_vars

\* C5 witness: a frame at speed 0 has left a positive time as it was.
C5_Witness ==
  /\ lastEvent = "tick"
  /\ params.speed = Zero
  /\ Less(Zero, t)

\* C6 as stated: at the end of a frame with charge = 0 or B = 0, omega is 0
\* and the position is (v_perp * t, 0, v_parallel * t), whatever the mass.
C6_ZeroFieldDrift ==
  (lastEvent = "tick" /\ (StrictEq(params.charge, Zero) \/ StrictEq(params.B, Zero)))
    => /\ StrictEq(omegaOf(params), Zero)
       /\ particle = Drift(t, params)

\* C7 as stated: at the end of a frame with mass = 0 the position is
\* (v_perp * t, 0, v_parallel * t) and every coordinate of the position and
\* of the trail points is finite.
C7_ZeroMassDrift ==
  (lastEvent = "tick" /\ StrictEq(params.mass, Zero))
    => /\ particle = Drift(t, params)
       /\ VecFinite(particle)
       /\ \A i \in 1..Len(trailPositions) : VecFinite(trailPositions[i])

\* C8: a frame with follow mode on ends with the camera at the position
\* computed in that frame plus (-10, 10*tan(20 deg), 0), looking at that
\* position; a frame with follow mode off writes neither the camera position
\* nor its target.
C8_FollowCamera ==
  [][lastEvent' = "tick" =>
       IF params.followCamera
       THEN /\ particle' = Trajectory(t', params')
            /\ camera' = VecAdd(particle',
                           Vector3(Fin(-10), Fin(TenTanTwentyDegrees), Zero))
            /\ cameraLookAt' = particle'
            /\ controlsTarget' = particle'
       ELSE /\ camera' = camera
            /\ cameraLookAt' = cameraLookAt
            /\ controlsTarget' = controlsTarget]_vars

\* C8 witness: a frame in follow mode has put the camera behind a particle
\* that has left the origin, after the user had dragged the camera away.
C8_Witness ==
  /\ lastEvent = "tick"
  /\ params.followCamera
  /\ particle # Origin
  /\ camera = VecAdd(particle, fixedCameraOffset)
  /\ controlsTarget = particle

\* C9 as stated: in every state the particle position is the trajectory at
\* the current time under the current parameters (taken on the states whose
\* mass is not 0, where the trajectory has no NaN coordinate).
C9_PositionDerived ==
  ~StrictEq(params.mass, Zero) => particle = Trajectory(t, params)

\* C9 amended: the position is the trajectory at the current time under the
\* current parameters at the end of every frame, and every other handler
\* leaves the position as the last frame computed it.
C9_PositionAtFrames ==
  [][/\ lastEvent' = "tick" => particle' = Trajectory(t', params')
     /\ lastEvent' # "tick" => particle' = particle]_vars

\* C9 witness: a slider change has reset the time while the position is
\* still the one of the last frame.
C9_Witness ==
  /\ lastEvent \in PhysicsSliders
  /\ t = Zero
  /\ particle # Trajectory(t, params)

\* C10: every point of the trail is the trajectory, under the current mass,
\* charge, B, v_perp and v_parallel, at some simulation time.
C10_TrailOneTrajectory ==
  \A i \in 1..Len(trailPositions) :
    \E tau \in TimeGrid : trailPositions[i] = Trajectory(tau, params)

\* C10 witness: two different points are in the trail after the physics
\* parameters have been changed from their initial values.
C10_Witness ==
  /\ Len(trailPositions) = 2
  /\ trailPositions[1] # trailPositions[2]
  /\ params.v_parallel = Zero
  /\ params.v_perp = Fin(2)
  /\ params.charge = Fin(-1)

====
